---------------------------- MODULE Spec2Model ----------------------------
(***************************************************************************)
(* ClusterSlotsService (core/src/cluster_slots_service.rs).                *)
(*                                                                         *)
(* The service owns one background thread.  Construction pushes the        *)
(* blockstore's lowest slot and the sorted frozen bank slots into gossip   *)
(* and spawns the thread; the thread loops: check the exit flag, wait up   *)
(* to 200 ms for a batch of slots, read the root, push the lowest slot,    *)
(* coalesce every queued batch into one sorted epoch-slots push, call      *)
(* ClusterSlots::update, fold the two measured durations into the timing   *)
(* accumulator and report it when more than 2 whole seconds have passed.   *)
(*                                                                         *)
(* The thread is modelled one shared-state access per step: the producers  *)
(* of the channel, the owner of the exit flag, the blockstore and the bank *)
(* forks run concurrently with it.                                         *)
(***************************************************************************)
EXTENDS Integers, Sequences, FiniteSets

\* ------------------------------------------------------------------ bounds
MaxSlot == 2          \* slots are 1..MaxSlot
MaxSlotsSent == 3     \* slots sent over a run, all batches together
MaxSends == 2         \* number of sends over a run
MaxRoot == 1          \* the root advances from 0 up to MaxRoot
MaxLowest == 1        \* the blockstore's lowest slot ranges over 0..MaxLowest
MaxClock == 12        \* the clock stops advancing here (in ticks)
TicksPerSec == 2      \* clock ticks in one second

\* ------------------------------------------------------- program constants
StatsIntervalSecs == 2     \* last_stats.elapsed().as_secs() > 2
MicrosPerSec == 1000000    \* Measure::as_us counts microseconds

Slot == 1..MaxSlot

RECURSIVE SeqsUpTo(_, _)
SeqsUpTo(S, n) ==
    IF n = 0 THEN {<<>>}
    ELSE LET shorter == SeqsUpTo(S, n - 1)
         IN  shorter \cup {Append(s, x) : s \in shorter, x \in S}

\* The values of Vec<Slot> a producer may send.
Batches == SeqsUpTo(Slot, MaxSlotsSent)

RECURSIVE TotalLen(_)
TotalLen(batches) ==
    IF batches = <<>> THEN 0 ELSE Len(Head(batches)) + TotalLen(Tail(batches))

VARIABLES
    \* crossbeam channel of Vec<Slot>
    chan,          \* queued batches, as indices into sent, oldest first
    sent,          \* every batch sent so far, in send order (history)
    connected,     \* some Sender handle is still alive
    \* shared collaborators
    exit,          \* Arc<AtomicBool>
    root,          \* bank_forks.root()
    frozen_banks,  \* keys of bank_forks.frozen_banks()
    lowest,        \* blockstore.lowest_slot()
    clock,         \* Instant::now(), in ticks
    \* the thread
    pc,            \* position of construction / of the loop thread
    slots,         \* Option<Vec<Slot>> of run, then the Vec of process_...: <<>> is None, <<v>> is Some(v)
    new_root,      \* local of run
    lowest_slot,   \* local of run
    lowest_slot_elapsed,                    \* Measure: [start, us]
    process_cluster_slots_updates_elapsed,  \* Measure: [start, us]
    cluster_slots_service_timing,           \* ClusterSlotsServiceTiming
    last_stats,    \* Instant of the last report
    stop_reason,   \* why the loop broke
    join_result,   \* what join() returned
    \* what the collaborators received
    epoch_pushes,  \* every push_epoch_slots call: [slots, ids, startup]
    gossip_lowest, \* the node's LowestSlot entry in gossip
    reconciled,    \* root argument of the last ClusterSlots::update call
    datapoints,    \* every datapoint_info! report: [at, lowest_slot_elapsed, process_...]
    \* per-iteration history, reset when an iteration starts
    it_taken,      \* batches taken from the channel, in order
    it_lowest,     \* push_lowest_slot calls
    it_epoch,      \* push_epoch_slots calls
    it_reconcile,  \* ClusterSlots::update calls
    it_recv        \* outcome of recv_timeout

chanVars == <<chan, sent, connected>>
envVars == <<exit, root, frozen_banks, lowest, clock>>
localVars == <<slots, new_root, lowest_slot>>
timingVars == <<lowest_slot_elapsed, process_cluster_slots_updates_elapsed,
                cluster_slots_service_timing, last_stats, datapoints>>
gossipVars == <<epoch_pushes, gossip_lowest, reconciled>>
iterVars == <<it_taken, it_lowest, it_epoch, it_reconcile, it_recv>>
vars == <<chanVars, envVars, pc, localVars, timingVars, stop_reason, join_result,
          gossipVars, iterVars>>

\* ---------------------------------------------------------------- helpers
\* Mutant of InsertSorted: an element already present is dropped (dedup).
InsertSortedDedup(s, x) ==
    IF \E i \in 1..Len(s) : s[i] = x
    THEN s
    ELSE LET k == Cardinality({i \in 1..Len(s) : s[i] <= x})
         IN  SubSeq(s, 1, k) \o <<x>> \o SubSeq(s, k + 1, Len(s))

\* Vec::sort / sort_unstable on Vec<u64>: insertion of each element behind
\* the elements not greater than it.
InsertSorted(s, x) ==
    LET k == Cardinality({i \in 1..Len(s) : s[i] <= x})
    IN  SubSeq(s, 1, k) \o <<x>> \o SubSeq(s, k + 1, Len(s))

RECURSIVE SortFrom(_, _)
SortFrom(acc, s) ==
    IF s = <<>> THEN acc ELSE SortFrom(InsertSorted(acc, Head(s)), Tail(s))

\* Mutant of Sort: the sort is left out.
SortLeftOut(s) == s

Sort(s) == SortFrom(<<>>, s)

\* The orders in which a HashMap's keys may be collected.
Orderings(S) ==
    {s \in [1..Cardinality(S) -> S] : \A i, j \in 1..Cardinality(S) : i # j => s[i] # s[j]}

\* ClusterInfo::push_epoch_slots(&v)
PushEpochSlots(v, ids, startup) ==
    epoch_pushes' = Append(epoch_pushes, [slots |-> v, ids |-> ids, startup |-> startup])

\* ClusterInfo::push_lowest_slot(s): the node's LowestSlot entry becomes s
\* (test_update_lowest_slot).
PushLowestSlot(s) == gossip_lowest' = s

MeasureStart == [start |-> clock, us |-> 0]
MeasureStop(m) == [m EXCEPT !.us = ((clock - m.start) * MicrosPerSec) \div TicksPerSec]

\* ------------------------------------------------------------------- Init
Init ==
    /\ chan = <<>>
    /\ sent = <<>>
    /\ connected = TRUE
    /\ exit = FALSE
    /\ root = 0
    /\ frozen_banks \in SUBSET Slot
    /\ lowest = 0
    /\ clock = 0
    /\ pc = "initialize_lowest_slot"
    /\ slots = <<>>
    /\ new_root = 0
    /\ lowest_slot = 0
    /\ lowest_slot_elapsed = [start |-> 0, us |-> 0]
    /\ process_cluster_slots_updates_elapsed = [start |-> 0, us |-> 0]
    /\ cluster_slots_service_timing =
           [lowest_slot_elapsed |-> 0, process_cluster_slots_updates_elapsed |-> 0]
    /\ last_stats = 0
    /\ stop_reason = "running"
    /\ join_result = "pending"
    /\ epoch_pushes = <<>>
    /\ gossip_lowest = 0
    /\ reconciled = 0
    /\ datapoints = <<>>
    /\ it_taken = <<>>
    /\ it_lowest = 0
    /\ it_epoch = 0
    /\ it_reconcile = 0
    /\ it_recv = "none"

\* ----------------------------------------------------------- construction
\* new, line 46: initialize_lowest_slot
InitializeLowestSlot ==
    /\ pc = "initialize_lowest_slot"
    /\ PushLowestSlot(lowest)
    /\ it_lowest' = it_lowest + 1
    /\ pc' = "initialize_epoch_slots"
    /\ UNCHANGED <<chanVars, envVars, localVars, timingVars, stop_reason, join_result,
                   epoch_pushes, reconciled, it_taken, it_epoch, it_reconcile, it_recv>>

\* Mutant of InitializeEpochSlots: the keys are pushed as collected.
InitializeEpochSlotsUnsorted ==
    /\ pc = "initialize_epoch_slots"
    /\ \E frozen_bank_slots \in Orderings(frozen_banks) :
          IF frozen_bank_slots # <<>>
          THEN /\ PushEpochSlots(frozen_bank_slots, {}, TRUE)
               /\ it_epoch' = it_epoch + 1
          ELSE UNCHANGED <<epoch_pushes, it_epoch>>
    /\ pc' = "spawn"
    /\ UNCHANGED <<chanVars, envVars, localVars, timingVars, stop_reason, join_result,
                   gossip_lowest, reconciled, it_taken, it_lowest, it_reconcile, it_recv>>

\* new, line 47: initialize_epoch_slots
InitializeEpochSlots ==
    /\ pc = "initialize_epoch_slots"
    /\ \E frozen_bank_slots \in Orderings(frozen_banks) :
          LET sorted == Sort(frozen_bank_slots)
          IN  IF sorted # <<>>
              THEN /\ PushEpochSlots(sorted, {}, TRUE)
                   /\ it_epoch' = it_epoch + 1
              ELSE UNCHANGED <<epoch_pushes, it_epoch>>
    /\ pc' = "spawn"
    /\ UNCHANGED <<chanVars, envVars, localVars, timingVars, stop_reason, join_result,
                   gossip_lowest, reconciled, it_taken, it_lowest, it_reconcile, it_recv>>

\* new, lines 48-64: the thread is spawned and the handle returned
Spawn ==
    /\ pc = "spawn"
    /\ last_stats' = clock
    /\ pc' = "check_exit"
    /\ UNCHANGED <<chanVars, envVars, localVars, lowest_slot_elapsed,
                   process_cluster_slots_updates_elapsed, cluster_slots_service_timing,
                   datapoints, stop_reason, join_result, gossipVars, iterVars>>

\* --------------------------------------------------------------- the loop
\* Mutant of CheckExit: the test of the flag is inverted.
CheckExitInverted ==
    /\ pc = "check_exit"
    /\ it_taken' = <<>>
    /\ it_lowest' = 0
    /\ it_epoch' = 0
    /\ it_reconcile' = 0
    /\ it_recv' = "none"
    /\ IF ~exit
       THEN pc' = "stopped" /\ stop_reason' = "exit"
       ELSE pc' = "recv_timeout" /\ UNCHANGED stop_reason
    /\ UNCHANGED <<chanVars, envVars, localVars, timingVars, join_result, gossipVars>>

\* run, lines 81-84: the top of an iteration
CheckExit ==
    /\ pc = "check_exit"
    /\ it_taken' = <<>>
    /\ it_lowest' = 0
    /\ it_epoch' = 0
    /\ it_reconcile' = 0
    /\ it_recv' = "none"
    /\ IF exit
       THEN pc' = "stopped" /\ stop_reason' = "exit"
       ELSE pc' = "recv_timeout" /\ UNCHANGED stop_reason
    /\ UNCHANGED <<chanVars, envVars, localVars, timingVars, join_result, gossipVars>>

\* Mutant of RecvOk: the newest batch is taken and the older ones are dropped.
RecvOkTakesNewest ==
    /\ pc = "recv_timeout"
    /\ chan # <<>>
    /\ slots' = <<sent[chan[Len(chan)]]>>
    /\ chan' = <<>>
    /\ it_taken' = Append(it_taken, chan[Len(chan)])
    /\ it_recv' = "Ok"
    /\ pc' = "read_root"
    /\ UNCHANGED <<sent, connected, envVars, new_root, lowest_slot, timingVars, stop_reason,
                   join_result, gossipVars, it_lowest, it_epoch, it_reconcile>>

\* Mutant of RecvOk: the batch is read and left in the channel.
RecvOkLeavesBatch ==
    /\ pc = "recv_timeout"
    /\ chan # <<>>
    /\ slots' = <<sent[Head(chan)]>>
    /\ it_taken' = Append(it_taken, Head(chan))
    /\ it_recv' = "Ok"
    /\ pc' = "read_root"
    /\ UNCHANGED <<chanVars, envVars, new_root, lowest_slot, timingVars, stop_reason,
                   join_result, gossipVars, it_lowest, it_epoch, it_reconcile>>

\* run, lines 85-87: recv_timeout returns Ok(slots)
RecvOk ==
    /\ pc = "recv_timeout"
    /\ chan # <<>>
    /\ slots' = <<sent[Head(chan)]>>
    /\ chan' = Tail(chan)
    /\ it_taken' = Append(it_taken, Head(chan))
    /\ it_recv' = "Ok"
    /\ pc' = "read_root"
    /\ UNCHANGED <<sent, connected, envVars, new_root, lowest_slot, timingVars, stop_reason,
                   join_result, gossipVars, it_lowest, it_epoch, it_reconcile>>

\* Mutant of RecvTimeout: a timeout breaks out of the loop.
RecvTimeoutBreaks ==
    /\ pc = "recv_timeout"
    /\ chan = <<>>
    /\ connected
    /\ slots' = <<>>
    /\ it_recv' = "Timeout"
    /\ pc' = "stopped"
    /\ stop_reason' = "timeout"
    /\ UNCHANGED <<chanVars, envVars, new_root, lowest_slot, timingVars,
                   join_result, gossipVars, it_taken, it_lowest, it_epoch, it_reconcile>>

\* run, line 88: recv_timeout returns Err(Timeout)
RecvTimeout ==
    /\ pc = "recv_timeout"
    /\ chan = <<>>
    /\ connected
    /\ slots' = <<>>
    /\ it_recv' = "Timeout"
    /\ pc' = "read_root"
    /\ UNCHANGED <<chanVars, envVars, new_root, lowest_slot, timingVars, stop_reason,
                   join_result, gossipVars, it_taken, it_lowest, it_epoch, it_reconcile>>

\* Mutant of RecvDisconnected: the disconnect is seen before the queued batches.
RecvDisconnectedBeforeQueue ==
    /\ pc = "recv_timeout"
    /\ ~connected
    /\ it_recv' = "Disconnected"
    /\ pc' = "stopped"
    /\ stop_reason' = "disconnected"
    /\ UNCHANGED <<chanVars, envVars, localVars, timingVars, join_result, gossipVars,
                   it_taken, it_lowest, it_epoch, it_reconcile>>

\* Mutant of RecvDisconnected: a disconnect is handled like a timeout.
RecvDisconnectedGoesOn ==
    /\ pc = "recv_timeout"
    /\ chan = <<>>
    /\ ~connected
    /\ slots' = <<>>
    /\ it_recv' = "Disconnected"
    /\ pc' = "read_root"
    /\ UNCHANGED <<chanVars, envVars, new_root, lowest_slot, timingVars, stop_reason,
                   join_result, gossipVars, it_taken, it_lowest, it_epoch, it_reconcile>>

\* run, lines 89-92: recv_timeout returns Err(Disconnected)
RecvDisconnected ==
    /\ pc = "recv_timeout"
    /\ chan = <<>>
    /\ ~connected
    /\ it_recv' = "Disconnected"
    /\ pc' = "stopped"
    /\ stop_reason' = "disconnected"
    /\ UNCHANGED <<chanVars, envVars, localVars, timingVars, join_result, gossipVars,
                   it_taken, it_lowest, it_epoch, it_reconcile>>

\* run, lines 94-95
ReadRoot ==
    /\ pc = "read_root"
    /\ new_root' = root
    /\ lowest_slot_elapsed' = MeasureStart
    /\ pc' = "lowest_slot"
    /\ UNCHANGED <<chanVars, envVars, slots, lowest_slot,
                   process_cluster_slots_updates_elapsed, cluster_slots_service_timing,
                   last_stats, datapoints, stop_reason, join_result, gossipVars, iterVars>>

\* Mutant of QueryLowestSlot: the value pushed last is used again.
QueryLowestSlotCached ==
    /\ pc = "lowest_slot"
    /\ lowest_slot' = gossip_lowest
    /\ pc' = "update_lowest_slot"
    /\ UNCHANGED <<chanVars, envVars, slots, new_root, timingVars, stop_reason,
                   join_result, gossipVars, iterVars>>

\* run, line 96
QueryLowestSlot ==
    /\ pc = "lowest_slot"
    /\ lowest_slot' = lowest
    /\ pc' = "update_lowest_slot"
    /\ UNCHANGED <<chanVars, envVars, slots, new_root, timingVars, stop_reason,
                   join_result, gossipVars, iterVars>>

\* Mutant of UpdateLowestSlot: the push moved under `if let Some(slots)`.
UpdateLowestSlotOnlyWithBatch ==
    /\ pc = "update_lowest_slot"
    /\ IF slots # <<>>
       THEN PushLowestSlot(lowest_slot) /\ it_lowest' = it_lowest + 1
       ELSE UNCHANGED <<gossip_lowest, it_lowest>>
    /\ lowest_slot_elapsed' = MeasureStop(lowest_slot_elapsed)
    /\ process_cluster_slots_updates_elapsed' = MeasureStart
    /\ pc' = IF slots # <<>> THEN "try_recv" ELSE "cluster_slots_update"
    /\ UNCHANGED <<chanVars, envVars, localVars, cluster_slots_service_timing, last_stats,
                   datapoints, stop_reason, join_result, epoch_pushes, reconciled,
                   it_taken, it_epoch, it_reconcile, it_recv>>

\* run, lines 97-101, and update_lowest_slot, lines 160-162
UpdateLowestSlot ==
    /\ pc = "update_lowest_slot"
    /\ PushLowestSlot(lowest_slot)
    /\ it_lowest' = it_lowest + 1
    /\ lowest_slot_elapsed' = MeasureStop(lowest_slot_elapsed)
    /\ process_cluster_slots_updates_elapsed' = MeasureStart
    /\ pc' = IF slots # <<>> THEN "try_recv" ELSE "cluster_slots_update"
    /\ UNCHANGED <<chanVars, envVars, localVars, cluster_slots_service_timing, last_stats,
                   datapoints, stop_reason, join_result, epoch_pushes, reconciled,
                   it_taken, it_epoch, it_reconcile, it_recv>>

\* Mutant of TryRecvOk: the batch is taken and dropped (no append).
TryRecvOkDropsMore ==
    /\ pc = "try_recv"
    /\ chan # <<>>
    /\ chan' = Tail(chan)
    /\ it_taken' = Append(it_taken, Head(chan))
    /\ UNCHANGED <<sent, connected, envVars, pc, localVars, timingVars,
                   stop_reason, join_result, gossipVars, it_lowest, it_epoch,
                   it_reconcile, it_recv>>

\* Mutant of TryRecvOk: the batch replaces what was received (slots = more).
TryRecvOkReplaces ==
    /\ pc = "try_recv"
    /\ chan # <<>>
    /\ slots' = <<sent[Head(chan)]>>
    /\ chan' = Tail(chan)
    /\ it_taken' = Append(it_taken, Head(chan))
    /\ UNCHANGED <<sent, connected, envVars, pc, new_root, lowest_slot, timingVars,
                   stop_reason, join_result, gossipVars, it_lowest, it_epoch,
                   it_reconcile, it_recv>>

\* Mutant of TryRecvOk: every drained batch is pushed on its own.
TryRecvOkPushesEach ==
    /\ pc = "try_recv"
    /\ chan # <<>>
    /\ LET more == Sort(sent[Head(chan)])
       IN  IF more # <<>>
           THEN /\ PushEpochSlots(more, {Head(chan)}, FALSE)
                /\ it_epoch' = it_epoch + 1
           ELSE UNCHANGED <<epoch_pushes, it_epoch>>
    /\ chan' = Tail(chan)
    /\ it_taken' = Append(it_taken, Head(chan))
    /\ UNCHANGED <<sent, connected, envVars, pc, localVars, timingVars,
                   stop_reason, join_result, gossip_lowest, reconciled, it_lowest,
                   it_reconcile, it_recv>>

\* process_cluster_slots_updates, lines 141-142: try_recv returns Ok(more)
TryRecvOk ==
    /\ pc = "try_recv"
    /\ chan # <<>>
    /\ slots' = <<slots[1] \o sent[Head(chan)]>>
    /\ chan' = Tail(chan)
    /\ it_taken' = Append(it_taken, Head(chan))
    /\ UNCHANGED <<sent, connected, envVars, pc, new_root, lowest_slot, timingVars,
                   stop_reason, join_result, gossipVars, it_lowest, it_epoch,
                   it_reconcile, it_recv>>

\* Mutant of TryRecvErr: the exit flag is also read when the drain ends.
TryRecvErrChecksExit ==
    /\ pc = "try_recv"
    /\ chan = <<>>
    /\ IF exit
       THEN pc' = "stopped" /\ stop_reason' = "exit"
       ELSE pc' = "sort_push" /\ UNCHANGED stop_reason
    /\ UNCHANGED <<chanVars, envVars, localVars, timingVars, join_result,
                   gossipVars, iterVars>>

\* process_cluster_slots_updates, line 141: try_recv returns Err (empty or
\* disconnected), which ends the while let
TryRecvErr ==
    /\ pc = "try_recv"
    /\ chan = <<>>
    /\ pc' = "sort_push"
    /\ UNCHANGED <<chanVars, envVars, localVars, timingVars, stop_reason, join_result,
                   gossipVars, iterVars>>

\* Mutant of SortAndPush: the is_empty test is left out.
SortAndPushUnguarded ==
    /\ pc = "sort_push"
    /\ PushEpochSlots(Sort(slots[1]), {it_taken[i] : i \in 1..Len(it_taken)}, FALSE)
    /\ it_epoch' = it_epoch + 1
    /\ slots' = <<>>
    /\ pc' = "cluster_slots_update"
    /\ UNCHANGED <<chanVars, envVars, new_root, lowest_slot, timingVars, stop_reason,
                   join_result, gossip_lowest, reconciled, it_taken, it_lowest,
                   it_reconcile, it_recv>>

\* process_cluster_slots_updates, lines 144-150
SortAndPush ==
    /\ pc = "sort_push"
    /\ LET sorted == Sort(slots[1])
       IN  IF sorted # <<>>
           THEN /\ PushEpochSlots(sorted, {it_taken[i] : i \in 1..Len(it_taken)}, FALSE)
                /\ it_epoch' = it_epoch + 1
           ELSE UNCHANGED <<epoch_pushes, it_epoch>>
    /\ slots' = <<>>
    /\ pc' = "cluster_slots_update"
    /\ UNCHANGED <<chanVars, envVars, new_root, lowest_slot, timingVars, stop_reason,
                   join_result, gossip_lowest, reconciled, it_taken, it_lowest,
                   it_reconcile, it_recv>>

\* Mutant of ClusterSlotsUpdate: the call moved under `if let Some(slots)`.
ClusterSlotsUpdateOnlyWithBatch ==
    /\ pc = "cluster_slots_update"
    /\ IF it_recv = "Ok"
       THEN reconciled' = new_root /\ it_reconcile' = it_reconcile + 1
       ELSE UNCHANGED <<reconciled, it_reconcile>>
    /\ process_cluster_slots_updates_elapsed' =
           MeasureStop(process_cluster_slots_updates_elapsed)
    /\ pc' = "timing_update"
    /\ UNCHANGED <<chanVars, envVars, localVars, lowest_slot_elapsed,
                   cluster_slots_service_timing, last_stats, datapoints, stop_reason,
                   join_result, epoch_pushes, gossip_lowest, it_taken, it_lowest,
                   it_epoch, it_recv>>

\* Mutant of ClusterSlotsUpdate: the root is read again for the call.
ClusterSlotsUpdateReadsRoot ==
    /\ pc = "cluster_slots_update"
    /\ reconciled' = root
    /\ it_reconcile' = it_reconcile + 1
    /\ process_cluster_slots_updates_elapsed' =
           MeasureStop(process_cluster_slots_updates_elapsed)
    /\ pc' = "timing_update"
    /\ UNCHANGED <<chanVars, envVars, localVars, lowest_slot_elapsed,
                   cluster_slots_service_timing, last_stats, datapoints, stop_reason,
                   join_result, epoch_pushes, gossip_lowest, it_taken, it_lowest,
                   it_epoch, it_recv>>

\* run, lines 108-109
ClusterSlotsUpdate ==
    /\ pc = "cluster_slots_update"
    /\ reconciled' = new_root
    /\ it_reconcile' = it_reconcile + 1
    /\ process_cluster_slots_updates_elapsed' =
           MeasureStop(process_cluster_slots_updates_elapsed)
    /\ pc' = "timing_update"
    /\ UNCHANGED <<chanVars, envVars, localVars, lowest_slot_elapsed,
                   cluster_slots_service_timing, last_stats, datapoints, stop_reason,
                   join_result, epoch_pushes, gossip_lowest, it_taken, it_lowest,
                   it_epoch, it_recv>>

\* ClusterSlotsServiceTiming::update, lines 27-30
TimingAfterUpdate(t, lowest_us, process_us) ==
    [lowest_slot_elapsed |-> t.lowest_slot_elapsed + lowest_us,
     process_cluster_slots_updates_elapsed |->
         t.process_cluster_slots_updates_elapsed + process_us]

\* ClusterSlotsServiceTiming::default()
TimingDefault == [lowest_slot_elapsed |-> 0, process_cluster_slots_updates_elapsed |-> 0]

\* datapoint_info!("cluster_slots_service-timing", ...), lines 117-129
Datapoint(t) ==
    [at |-> clock,
     lowest_slot_elapsed |-> t.lowest_slot_elapsed,
     process_cluster_slots_updates_elapsed |-> t.process_cluster_slots_updates_elapsed]

\* last_stats.elapsed().as_secs()
ElapsedSecs == (clock - last_stats) \div TicksPerSec

\* Mutant of TimingUpdate: last_stats is not set again after the report.
TimingUpdateKeepsTimer ==
    /\ pc = "timing_update"
    /\ LET updated == TimingAfterUpdate(cluster_slots_service_timing,
                                        lowest_slot_elapsed.us,
                                        process_cluster_slots_updates_elapsed.us)
       IN  IF ElapsedSecs > StatsIntervalSecs
           THEN /\ datapoints' = Append(datapoints, Datapoint(updated))
                /\ cluster_slots_service_timing' = TimingDefault
                /\ UNCHANGED last_stats
           ELSE /\ cluster_slots_service_timing' = updated
                /\ UNCHANGED <<datapoints, last_stats>>
    /\ new_root' = 0
    /\ lowest_slot' = 0
    /\ lowest_slot_elapsed' = [start |-> 0, us |-> 0]
    /\ process_cluster_slots_updates_elapsed' = [start |-> 0, us |-> 0]
    /\ pc' = "check_exit"
    /\ UNCHANGED <<chanVars, envVars, slots, stop_reason, join_result, gossipVars, iterVars>>

\* run, lines 111-133: the end of an iteration
TimingUpdate ==
    /\ pc = "timing_update"
    /\ LET updated == TimingAfterUpdate(cluster_slots_service_timing,
                                        lowest_slot_elapsed.us,
                                        process_cluster_slots_updates_elapsed.us)
       IN  IF ElapsedSecs > StatsIntervalSecs
           THEN /\ datapoints' = Append(datapoints, Datapoint(updated))
                /\ cluster_slots_service_timing' = TimingDefault
                /\ last_stats' = clock
           ELSE /\ cluster_slots_service_timing' = updated
                /\ UNCHANGED <<datapoints, last_stats>>
    /\ new_root' = 0
    /\ lowest_slot' = 0
    /\ lowest_slot_elapsed' = [start |-> 0, us |-> 0]
    /\ process_cluster_slots_updates_elapsed' = [start |-> 0, us |-> 0]
    /\ pc' = "check_exit"
    /\ UNCHANGED <<chanVars, envVars, slots, stop_reason, join_result, gossipVars, iterVars>>

\* join, lines 67-69: the thread has ended without a panic
Join ==
    /\ pc = "stopped"
    /\ join_result = "pending"
    /\ join_result' = "Ok"
    /\ UNCHANGED <<chanVars, envVars, pc, localVars, timingVars, stop_reason,
                   gossipVars, iterVars>>

\* ------------------------------------------------------------ environment
\* ClusterSlotsUpdateSender::send: a producer enqueues a batch.  Once the
\* receiver is dropped with the thread, send returns an error.
Send ==
    /\ connected
    /\ pc # "stopped"
    /\ Len(sent) < MaxSends
    /\ \E batch \in Batches :
          /\ TotalLen(sent) + Len(batch) <= MaxSlotsSent
          /\ sent' = Append(sent, batch)
          /\ chan' = Append(chan, Len(sent) + 1)
    /\ UNCHANGED <<connected, envVars, pc, localVars, timingVars, stop_reason, join_result,
                   gossipVars, iterVars>>

\* The last Sender handle is dropped.
DropSender ==
    /\ connected
    /\ connected' = FALSE
    /\ UNCHANGED <<chan, sent, envVars, pc, localVars, timingVars, stop_reason,
                   join_result, gossipVars, iterVars>>

\* The owner of the exit flag stores true.
SetExit ==
    /\ ~exit
    /\ exit' = TRUE
    /\ UNCHANGED <<chanVars, root, frozen_banks, lowest, clock, pc, localVars, timingVars,
                   stop_reason, join_result, gossipVars, iterVars>>

\* bank_forks sets a new root.
AdvanceRoot ==
    /\ root < MaxRoot
    /\ root' = root + 1
    /\ UNCHANGED <<chanVars, exit, frozen_banks, lowest, clock, pc, localVars, timingVars,
                   stop_reason, join_result, gossipVars, iterVars>>

\* The blockstore's lowest slot changes (purge, or insertion of an older slot).
SetLowest ==
    /\ \E l \in 0..MaxLowest :
          /\ l # lowest
          /\ lowest' = l
    /\ UNCHANGED <<chanVars, exit, root, frozen_banks, clock, pc, localVars, timingVars,
                   stop_reason, join_result, gossipVars, iterVars>>

\* Time passes.
Tick ==
    /\ clock < MaxClock
    /\ clock' = clock + 1
    /\ UNCHANGED <<chanVars, exit, root, frozen_banks, lowest, pc, localVars, timingVars,
                   stop_reason, join_result, gossipVars, iterVars>>

\* ---------------------------------------------------------- specifications
Construct == InitializeLowestSlot \/ InitializeEpochSlots \/ Spawn

Loop ==
    \/ CheckExit
    \/ RecvOk
    \/ RecvTimeout
    \/ RecvDisconnected
    \/ ReadRoot
    \/ QueryLowestSlot
    \/ UpdateLowestSlot
    \/ TryRecvOk
    \/ TryRecvErr
    \/ SortAndPush
    \/ ClusterSlotsUpdate
    \/ TimingUpdate

Next ==
    \/ Construct
    \/ Loop
    \/ Join
    \/ Send
    \/ DropSender
    \/ SetExit

\* The channel, the exit flag and the thread; the ledger, the fork state and
\* the clock stand still.
Spec == Init /\ [][Next]_vars

\* The thread is scheduled: construction and the loop keep taking steps.
\* Every slot is a frozen bank at startup.
InitFair == Init /\ frozen_banks = Slot

FairSpec == InitFair /\ [][Next]_vars /\ WF_vars(Construct \/ Loop)

\* A producer sends the batch [1].
SendOneSlot == Send /\ sent' = Append(sent, <<1>>)

\* The loop while no sender is dropped and the exit flag is not set.
Running ==
    \/ CheckExit
    \/ RecvOk
    \/ RecvTimeout
    \/ ReadRoot
    \/ QueryLowestSlot
    \/ UpdateLowestSlot
    \/ TryRecvOk
    \/ TryRecvErr
    \/ SortAndPush
    \/ ClusterSlotsUpdate
    \/ TimingUpdate

\* The ledger and the fork state change under the thread: the blockstore's
\* lowest slot and the root move at any step.
LedgerNext ==
    \/ Construct
    \/ Running
    \/ SendOneSlot
    \/ AdvanceRoot
    \/ SetLowest

LedgerSpec == Init /\ [][LedgerNext]_vars

\* Time passes under the thread, at any step.
SendFirst == sent = <<>> /\ SendOneSlot

TimedNext ==
    \/ Construct
    \/ CheckExit
    \/ RecvOk
    \/ RecvTimeout
    \/ ReadRoot
    \/ QueryLowestSlot
    \/ UpdateLowestSlot
    \/ TryRecvErr
    \/ SortAndPush
    \/ ClusterSlotsUpdate
    \/ TimingUpdate
    \/ SendFirst
    \/ Tick

\* No bank is frozen at startup.
InitTimed == Init /\ frozen_banks = {}

TimedSpec == InitTimed /\ [][TimedNext]_vars

\* ------------------------------------------------- vocabulary of the claims
IsSorted(s) == \A i \in 1..(Len(s) - 1) : s[i] <= s[i + 1]

Count(v, s) == Cardinality({i \in 1..Len(s) : s[i] = v})

Range(s) == {s[i] : i \in 1..Len(s)}

\* Occurrences of v in the batches with the given indices.
RECURSIVE CountIn(_, _)
CountIn(v, ids) ==
    IF ids = {} THEN 0
    ELSE LET i == CHOOSE j \in ids : TRUE
         IN  Count(v, sent[i]) + CountIn(v, ids \ {i})

\* Slots in the batches with the given indices.
RECURSIVE LenOf(_)
LenOf(ids) ==
    IF ids = {} THEN 0
    ELSE LET i == CHOOSE j \in ids : TRUE
         IN  Len(sent[i]) + LenOf(ids \ {i})

LoopPushes == {k \in 1..Len(epoch_pushes) : ~epoch_pushes[k].startup}

\* Every slot of batch i is in a push that merged batch i.
BatchAdvertised(i) ==
    /\ i <= Len(sent)
    /\ \A j \in 1..Len(sent[i]) :
           \E k \in LoopPushes :
               /\ i \in epoch_pushes[k].ids
               /\ sent[i][j] \in Range(epoch_pushes[k].slots)

\* The iteration has finished receiving and coalescing.
Coalesced == pc \in {"cluster_slots_update", "timing_update", "check_exit"}

\* The push of the current iteration is the sorted merge of what it took.
PushIsMergeOfTaken ==
    /\ it_epoch = 1
    /\ epoch_pushes # <<>>
    /\ LET push == epoch_pushes[Len(epoch_pushes)]
       IN  /\ ~push.startup
           /\ Len(push.slots) = LenOf(Range(it_taken))
           /\ \A v \in Slot : Count(v, push.slots) = CountIn(v, Range(it_taken))

\* C1. No loss: under a scheduled thread, again and again every batch sent so
\* far is settled: each of its slots is in an epoch-slots push that merged the
\* batch, or the loop has stopped with the batch still in the channel.
BatchSettled(i) == BatchAdvertised(i) \/ (pc = "stopped" /\ i \in Range(chan))

NoLoss == []<>(\A i \in 1..Len(sent) : BatchSettled(i))

\* A non-empty batch sent second has been advertised.
NoLossWitness ==
    /\ Len(sent) = 2
    /\ sent[2] # <<>>
    /\ BatchAdvertised(2)

\* C2 as stated. An iteration whose recv_timeout returned a batch issues one
\* push that merges every batch it took, and an iteration that timed out takes
\* nothing and pushes nothing.
EveryTakenBatchPushed ==
    Coalesced =>
        /\ it_recv = "Ok" => PushIsMergeOfTaken
        /\ it_recv = "Timeout" => (it_taken = <<>> /\ it_epoch = 0)

\* C2 as amended. An iteration whose recv_timeout returned a batch issues one
\* push that merges every batch it took when those batches hold a slot, and
\* no push when all of them are empty; nothing is kept for the next
\* iteration; an iteration that timed out takes nothing and pushes nothing.
EveryTakenSlotPushed ==
    Coalesced =>
        /\ slots = <<>>
        /\ it_recv = "Ok" =>
              /\ it_taken # <<>>
              /\ IF LenOf(Range(it_taken)) = 0 THEN it_epoch = 0 ELSE PushIsMergeOfTaken
        /\ it_recv = "Timeout" => (it_taken = <<>> /\ it_epoch = 0)

\* The second iteration that received has pushed the merge of what it took.
EveryTakenSlotPushedWitness ==
    /\ pc = "timing_update"
    /\ Cardinality(LoopPushes) = 2
    /\ PushIsMergeOfTaken

\* C3. Sort order: every sequence given to push_epoch_slots, at startup and in
\* the loop, is non-decreasing.
SortOrder == \A k \in 1..Len(epoch_pushes) : IsSorted(epoch_pushes[k].slots)

\* Two batches that arrived in descending order were merged into one push.
SortOrderWitness ==
    \E k \in LoopPushes :
        /\ epoch_pushes[k].ids = {1, 2}
        /\ sent[1] # <<>>
        /\ sent[2] # <<>>
        /\ sent[1][1] > sent[2][1]

\* C4. No empty advertisement: push_epoch_slots is never called with an empty
\* sequence.
NoEmptyAdvertisement == \A k \in 1..Len(epoch_pushes) : epoch_pushes[k].slots # <<>>

\* No bank was frozen at startup, and an iteration has coalesced two empty
\* batches.
NoEmptyAdvertisementWitness ==
    /\ frozen_banks = {}
    /\ pc = "timing_update"
    /\ Len(it_taken) = 2
    /\ LenOf(Range(it_taken)) = 0
    /\ epoch_pushes = <<>>

\* C5. The lowest slot is pushed exactly once in every iteration that got past
\* recv_timeout, with a batch or with a timeout: not before the push, once
\* after it.
LowestSlotOncePerIteration ==
    /\ pc \in {"recv_timeout", "read_root", "lowest_slot", "update_lowest_slot"}
          => it_lowest = 0
    /\ pc \in {"try_recv", "sort_push", "cluster_slots_update", "timing_update"}
          => it_lowest = 1
    /\ (pc = "check_exit" /\ it_recv \in {"Ok", "Timeout"}) => it_lowest = 1

\* An iteration that timed out has ended.
LowestSlotOncePerIterationWitness ==
    /\ pc = "check_exit"
    /\ it_recv = "Timeout"
    /\ it_lowest = 1

\* C6. At most one push_epoch_slots call per iteration.
AtMostOneEpochPush == it_epoch <= 1

\* An iteration has pushed once for two non-empty batches.
AtMostOneEpochPushWitness ==
    /\ pc = "timing_update"
    /\ it_epoch = 1
    /\ Len(it_taken) = 2
    /\ sent[1] # <<>>
    /\ sent[2] # <<>>

\* C7. Duplicates are preserved: every push of the loop is sorted, as long as
\* the batches it merged together, and holds every slot as often as they do.
DuplicatesPreserved ==
    \A k \in LoopPushes :
        LET push == epoch_pushes[k]
        IN  /\ IsSorted(push.slots)
            /\ Len(push.slots) = LenOf(push.ids)
            /\ \A v \in Slot : Count(v, push.slots) = CountIn(v, push.ids)

\* Batches [2,1] and [2] were merged into the push [1,2,2].
DuplicatesPreservedWitness ==
    /\ Len(sent) = 2
    /\ sent[1] = <<2, 1>>
    /\ sent[2] = <<2>>
    /\ \E k \in LoopPushes :
          /\ epoch_pushes[k].ids = {1, 2}
          /\ epoch_pushes[k].slots = <<1, 2, 2>>

\* C8. The loop stops only when the exit flag is read set at the top of an
\* iteration or recv_timeout returns Disconnected; a timeout goes on with the
\* iteration; join returns Ok, and only once the loop has stopped.
StopsOnlyOnTrigger ==
    /\ [][(pc # "stopped" /\ pc' = "stopped") =>
             \/ pc = "check_exit" /\ exit /\ stop_reason' = "exit"
             \/ /\ pc = "recv_timeout" /\ chan = <<>> /\ ~connected
                /\ it_recv' = "Disconnected" /\ stop_reason' = "disconnected"]_vars
    /\ [][(it_recv # "Timeout" /\ it_recv' = "Timeout") => pc' = "read_root"]_vars
    /\ [][join_result' # join_result => (pc = "stopped" /\ join_result' = "Ok")]_vars
    /\ [](pc = "stopped" => (join_result = "Ok" \/ ENABLED Join))

\* The loop stopped on a disconnect and join has returned.
StopsOnlyOnTriggerWitness ==
    /\ pc = "stopped"
    /\ stop_reason = "disconnected"
    /\ join_result = "Ok"

\* C9. Shutdown observed: the step the thread takes at the top of an iteration
\* with the exit flag set stops the loop, and takes nothing from the channel,
\* pushes nothing and calls no update; the batches queued then stay
\* unadvertised.
ShutdownObserved ==
    /\ [][(pc = "check_exit" /\ exit /\ pc' # pc) =>
             /\ pc' = "stopped"
             /\ stop_reason' = "exit"
             /\ UNCHANGED <<chan, epoch_pushes, gossip_lowest, reconciled>>
             /\ it_taken' = <<>>
             /\ it_lowest' = 0
             /\ it_epoch' = 0
             /\ it_reconcile' = 0
             /\ it_recv' = "none"]_vars
    /\ []((pc = "stopped" /\ stop_reason = "exit") =>
             /\ it_taken = <<>>
             /\ it_lowest = 0
             /\ it_epoch = 0
             /\ it_reconcile = 0
             /\ \A i \in Range(chan), k \in 1..Len(epoch_pushes) :
                    i \notin epoch_pushes[k].ids)

\* The loop stopped on the exit flag with a non-empty batch in the channel.
ShutdownObservedWitness ==
    /\ pc = "stopped"
    /\ stop_reason = "exit"
    /\ chan # <<>>
    /\ sent[Head(chan)] # <<>>

\* C10. Disconnect termination: with every sender dropped and the channel
\* empty, the next recv_timeout stops the loop and nothing is pushed or
\* updated in that iteration, no recv_timeout times out any more, join does
\* not fail, and a scheduled thread gets there.
DisconnectTermination ==
    /\ [][(pc = "recv_timeout" /\ chan = <<>> /\ ~connected /\ pc' # pc) =>
             /\ pc' = "stopped"
             /\ stop_reason' = "disconnected"
             /\ UNCHANGED <<epoch_pushes, gossip_lowest, reconciled>>]_vars
    /\ []((pc = "stopped" /\ stop_reason = "disconnected") =>
             /\ it_taken = <<>>
             /\ it_lowest = 0
             /\ it_epoch = 0
             /\ it_reconcile = 0
             /\ join_result \in {"pending", "Ok"})
    /\ [][(~connected /\ chan = <<>> /\ it_recv' # it_recv) =>
             it_recv' \in {"none", "Disconnected"}]_vars
    /\ (~connected /\ chan = <<>>) ~> (pc = "stopped")

\* The loop stopped on a disconnect after an iteration that advertised a batch.
DisconnectTerminationWitness ==
    /\ pc = "stopped"
    /\ stop_reason = "disconnected"
    /\ ~exit
    /\ LoopPushes # {}

\* C11. Timeout independence: while producers are alive and have sent
\* nothing, every iteration times out, pushes the lowest slot once, calls
\* update once and pushes no epoch slots; once the exit flag is set a
\* scheduled thread stops, and join returns Ok.
TimeoutIndependence ==
    /\ []((sent = <<>> /\ connected) =>
             /\ pc \notin {"try_recv", "sort_push"}
             /\ pc \in {"read_root", "lowest_slot", "update_lowest_slot",
                        "cluster_slots_update", "timing_update"} => it_recv = "Timeout"
             /\ pc = "cluster_slots_update" => (it_lowest = 1 /\ it_reconcile = 0)
             /\ pc = "timing_update" => (it_lowest = 1 /\ it_reconcile = 1)
             /\ pc \in {"recv_timeout", "read_root", "lowest_slot", "update_lowest_slot",
                        "cluster_slots_update", "timing_update", "stopped"} => it_epoch = 0
             /\ LoopPushes = {}
             /\ pc = "stopped" => (stop_reason = "exit" /\ exit))
    /\ exit ~> (pc = "stopped")
    /\ [](pc = "stopped" => (join_result = "Ok" \/ ENABLED Join))

\* With no batch ever sent, an iteration timed out and made its calls while
\* the exit flag was already set.
TimeoutIndependenceWitness ==
    /\ sent = <<>>
    /\ connected
    /\ exit
    /\ pc = "timing_update"
    /\ it_recv = "Timeout"
    /\ it_lowest = 1
    /\ it_reconcile = 1

\* The iteration holds received batches that it has not pushed yet.
Coalescing == pc \in {"read_root", "lowest_slot", "update_lowest_slot", "try_recv", "sort_push"}

InChannel(i) == i \in Range(chan)

BeingCoalesced(i) == Coalescing /\ i \in Range(it_taken)

Pushed(i) == \E k \in LoopPushes : i \in epoch_pushes[k].ids

\* C15. Producers send concurrently with the loop: a batch that holds a slot
\* is in exactly one place, the channel, the iteration coalescing it, or one
\* push that carries its slots; the next recv_timeout takes the oldest queued
\* batch; and send is possible at every step of a running loop.
ConcurrentSendKept ==
    /\ [](\A i \in 1..Len(sent) :
             sent[i] # <<>> =>
                 /\ InChannel(i) \/ BeingCoalesced(i) \/ Pushed(i)
                 /\ ~(InChannel(i) /\ BeingCoalesced(i))
                 /\ ~(InChannel(i) /\ Pushed(i))
                 /\ ~(BeingCoalesced(i) /\ Pushed(i))
                 /\ Pushed(i) => BatchAdvertised(i))
    /\ [][(pc = "recv_timeout" /\ chan # <<>> /\ pc' # pc) =>
             (it_taken' = <<Head(chan)>> /\ chan' = Tail(chan))]_vars
    /\ []((connected /\ pc # "stopped" /\ Len(sent) < MaxSends) => ENABLED Send)

\* A batch was sent after the drain found the channel empty: it waits in the
\* channel while the iteration pushes the first batch.
ConcurrentSendKeptWitness ==
    /\ pc = "sort_push"
    /\ it_taken = <<1>>
    /\ chan = <<2>>
    /\ sent[1] # <<>>
    /\ sent[2] # <<>>

\* Position of the thread in program order.
PcOrder ==
    <<"initialize_lowest_slot", "initialize_epoch_slots", "spawn", "recv_timeout",
      "read_root", "lowest_slot", "update_lowest_slot", "try_recv", "sort_push",
      "cluster_slots_update", "timing_update", "check_exit", "stopped">>

Rank(p) == CHOOSE i \in 1..Len(PcOrder) : PcOrder[i] = p

\* C16 as stated. With the exit flag set, the loop stops nowhere but at the
\* check at the top of an iteration.
CancellationOnlyAtCheck ==
    [][(exit /\ pc # "stopped" /\ pc' = "stopped") => pc = "check_exit"]_vars

\* C16 as amended. With the exit flag set, the loop stops at the check at the
\* top of an iteration, or before it when recv_timeout returns Disconnected;
\* the thread never goes back in program order, so that it makes each call of
\* an iteration at most once after the flag is set; and a scheduled thread
\* stops.
CancellationCooperative ==
    /\ [][(exit /\ pc # "stopped" /\ pc' = "stopped") =>
             \/ pc = "check_exit"
             \/ pc = "recv_timeout" /\ it_recv' = "Disconnected"]_vars
    /\ [][exit => Rank(pc') >= Rank(pc)]_vars
    /\ [][(exit /\ pc \notin {"spawn", "check_exit", "recv_timeout", "stopped"} /\ pc' # pc) =>
             Rank(pc') \in {Rank(pc) + 1, Rank("cluster_slots_update")}]_vars
    /\ exit ~> (pc = "stopped")

\* The flag was set after a batch was received; the iteration has pushed it
\* and made its update call.
CancellationCooperativeWitness ==
    /\ exit
    /\ pc = "timing_update"
    /\ it_recv = "Ok"
    /\ it_lowest = 1
    /\ it_epoch = 1
    /\ it_reconcile = 1

\* Occurrences of v in the pushes with the given indices.
RECURSIVE CountPushed(_, _)
CountPushed(v, ks) ==
    IF ks = {} THEN 0
    ELSE LET k == CHOOSE j \in ks : TRUE
         IN  Count(v, epoch_pushes[k].slots) + CountPushed(v, ks \ {k})

\* C19. Each batch is in at most one push: batches leave the channel oldest
\* first when they are received, later pushes merge later batches, and the
\* slots pushed by the loop are, with their multiplicity, among the slots sent.
AtMostOncePushed ==
    /\ [](\A v \in Slot : CountPushed(v, LoopPushes) <= CountIn(v, 1..Len(sent)))
    /\ [](\A k1, k2 \in LoopPushes :
             k1 < k2 => \A i1 \in epoch_pushes[k1].ids, i2 \in epoch_pushes[k2].ids : i1 < i2)
    /\ [][it_taken' # it_taken =>
             \/ it_taken' = <<>>
             \/ chan # <<>> /\ it_taken' = Append(it_taken, Head(chan)) /\ chan' = Tail(chan)]_vars
    /\ [](\A i \in 1..Len(chan) : \A j \in 1..Len(chan) : i < j => chan[i] < chan[j])

\* Two iterations have each pushed one batch, and the batches hold the same
\* slot.
AtMostOncePushedWitness ==
    /\ Len(sent) = 2
    /\ sent[1] = sent[2]
    /\ sent[1] # <<>>
    /\ \E k1, k2 \in LoopPushes :
          /\ epoch_pushes[k1].ids = {1}
          /\ epoch_pushes[k2].ids = {2}

\* C20. Disconnect with batches queued: recv_timeout on a channel that holds
\* a batch returns the batch, with or without senders; the loop stops on a
\* disconnect only with the channel empty, and then every slot sent is in a
\* push; a scheduled thread stops once the senders are gone.
DisconnectDrainsFirst ==
    /\ [][(pc = "recv_timeout" /\ chan # <<>> /\ pc' # pc) =>
             (pc' = "read_root" /\ it_recv' = "Ok" /\ chan' = Tail(chan))]_vars
    /\ [][(pc # "stopped" /\ pc' = "stopped" /\ stop_reason' = "disconnected") =>
             (chan = <<>> /\ ~connected)]_vars
    /\ []((pc = "stopped" /\ stop_reason = "disconnected") =>
             /\ chan = <<>>
             /\ \A i \in 1..Len(sent) : BatchAdvertised(i))
    /\ (~connected) ~> (pc = "stopped")

\* The loop stopped on a disconnect, without the exit flag, after two
\* iterations pushed a batch each.
DisconnectDrainsFirstWitness ==
    /\ pc = "stopped"
    /\ stop_reason = "disconnected"
    /\ ~exit
    /\ Cardinality(LoopPushes) = 2

StartupPushes == {k \in 1..Len(epoch_pushes) : epoch_pushes[k].startup}

InConstruction == pc \in {"initialize_lowest_slot", "initialize_epoch_slots", "spawn"}

\* C12. Startup: before the thread is spawned, new pushes the lowest slot
\* once, with the blockstore's lowest slot at that step, and then pushes the
\* frozen bank slots once, in ascending order, when there are any and not at
\* all when there are none; neither is done again by construction.
StartupOnce ==
    /\ [](pc = "initialize_lowest_slot" => (it_lowest = 0 /\ epoch_pushes = <<>>))
    /\ [][(pc = "initialize_lowest_slot" /\ pc' # pc) =>
             (gossip_lowest' = lowest /\ pc' = "initialize_epoch_slots")]_vars
    /\ [](pc = "initialize_epoch_slots" => (it_lowest = 1 /\ epoch_pushes = <<>>))
    /\ [](pc = "spawn" =>
             /\ it_lowest = 1
             /\ it_reconcile = 0
             /\ IF frozen_banks = {}
                THEN epoch_pushes = <<>>
                ELSE /\ Len(epoch_pushes) = 1
                     /\ epoch_pushes[1].startup
                     /\ IsSorted(epoch_pushes[1].slots)
                     /\ Range(epoch_pushes[1].slots) = frozen_banks
                     /\ Len(epoch_pushes[1].slots) = Cardinality(frozen_banks))
    /\ [](StartupPushes = (IF frozen_banks = {} \/ pc \in {"initialize_lowest_slot",
                                                            "initialize_epoch_slots"}
                           THEN {} ELSE {1}))
    /\ [][InConstruction' => InConstruction]_vars

\* The blockstore's lowest slot was 1 at construction and both slots were
\* frozen: new has pushed 1 and then [1, 2].
StartupOnceWitness ==
    /\ pc = "spawn"
    /\ frozen_banks = {1, 2}
    /\ gossip_lowest = 1
    /\ epoch_pushes = <<[slots |-> <<1, 2>>, ids |-> {}, startup |-> TRUE]>>

\* The iteration has pushed its lowest slot.
LowestPushed == pc \in {"try_recv", "sort_push", "cluster_slots_update", "timing_update"}

\* C14. Lowest slot: update_lowest_slot(s) leaves s as the node's entry in
\* gossip; the value an iteration pushes is the one the blockstore returned
\* when that iteration queried it, and it stays the node's entry to the end
\* of the iteration.
LowestSlotFresh ==
    /\ [][(pc = "lowest_slot" /\ pc' # pc) => (lowest_slot' = lowest)]_vars
    /\ [][(pc = "update_lowest_slot" /\ pc' # pc) =>
             (gossip_lowest' = lowest_slot /\ lowest_slot' = lowest_slot)]_vars
    /\ [](LowestPushed => gossip_lowest = lowest_slot)
    /\ [][gossip_lowest' # gossip_lowest =>
             pc \in {"initialize_lowest_slot", "update_lowest_slot"}]_vars

\* The blockstore's lowest slot went from 0 to 1 before the query and back to
\* 0 after it: the iteration ends with 1 in gossip.
LowestSlotFreshWitness ==
    /\ pc = "timing_update"
    /\ lowest_slot = 1
    /\ gossip_lowest = 1
    /\ lowest = 0

\* C17. Order within an iteration: the root is read before any call, the
\* lowest slot is pushed before the epoch slots, at most one push of epoch
\* slots comes before the one update call, update is given the root read at
\* the start of the same iteration whatever the root is by then, and all of
\* it is done before the next recv_timeout.
IterationOrder ==
    /\ [](pc \in {"recv_timeout", "read_root", "lowest_slot", "update_lowest_slot"} =>
             (it_lowest = 0 /\ it_epoch = 0 /\ it_reconcile = 0))
    /\ [](pc \in {"try_recv", "sort_push"} =>
             (it_lowest = 1 /\ it_epoch = 0 /\ it_reconcile = 0))
    /\ [](pc = "cluster_slots_update" =>
             (it_lowest = 1 /\ it_epoch \in {0, 1} /\ it_reconcile = 0))
    /\ [](pc = "timing_update" =>
             (it_lowest = 1 /\ it_epoch \in {0, 1} /\ it_reconcile = 1))
    /\ [][(pc = "read_root" /\ pc' # pc) => (new_root' = root)]_vars
    /\ [][(pc \in {"lowest_slot", "update_lowest_slot", "try_recv", "sort_push",
                   "cluster_slots_update"}) => (new_root' = new_root)]_vars
    /\ [][(pc = "cluster_slots_update" /\ pc' # pc) => (reconciled' = new_root)]_vars
    /\ [][reconciled' # reconciled => pc = "cluster_slots_update"]_vars
    /\ [][(pc' = "recv_timeout" /\ pc # "recv_timeout") => pc = "check_exit"]_vars
    /\ [][(pc' = "check_exit" /\ pc # "check_exit") => pc \in {"spawn", "timing_update"}]_vars

\* The root advanced after the iteration read it: update was called, after a
\* push of epoch slots, with the root read at the start.
IterationOrderWitness ==
    /\ pc = "timing_update"
    /\ it_epoch = 1
    /\ it_reconcile = 1
    /\ new_root = 0
    /\ reconciled = 0
    /\ root = 1

\* Ticks since last_stats was set.
SinceLastStats == clock - last_stats

\* C13. Metrics cadence: a datapoint is reported only when at least 2 seconds
\* have passed since last_stats was set, by the start of the loop or by the
\* report before; right after a report both totals are zero and last_stats
\* is the current time; reports are at least 2 seconds apart.
MetricsCadence ==
    /\ [][datapoints' # datapoints =>
             /\ SinceLastStats >= StatsIntervalSecs * TicksPerSec
             /\ Len(datapoints') = Len(datapoints) + 1
             /\ cluster_slots_service_timing' = TimingDefault
             /\ last_stats' = clock']_vars
    /\ [][last_stats' # last_stats => (pc = "spawn" \/ datapoints' # datapoints)]_vars
    /\ [](\A k \in 1..(Len(datapoints) - 1) :
             datapoints[k + 1].at - datapoints[k].at >= StatsIntervalSecs * TicksPerSec)
    /\ [](\A k \in 1..Len(datapoints) : datapoints[k].at <= last_stats)

\* A second datapoint has just been reported: the totals are zero and
\* last_stats is the current time.
MetricsCadenceWitness ==
    /\ Len(datapoints) = 2
    /\ pc = "check_exit"
    /\ datapoints[2].at = clock
    /\ last_stats = clock
    /\ cluster_slots_service_timing = TimingDefault

\* C18. Flush trigger: an iteration that ends more than 2 seconds after
\* last_stats was set reports one datapoint.
FlushAfterTwoSeconds ==
    [][(pc = "timing_update" /\ pc' # pc /\ SinceLastStats > StatsIntervalSecs * TicksPerSec) =>
          Len(datapoints') = Len(datapoints) + 1]_vars

=============================================================================
